---- MODULE Spec2Model ----
(***************************************************************************)
(* Danube AI Insight (src/app.py.py): a Streamlit script with two          *)
(* calculators, the ROI projection (tab 1) and the energy simulation       *)
(* (tab 2).  Every user interaction reruns the whole script.               *)
(*                                                                         *)
(* Numbers.  Python floats are modelled as exact numbers:                  *)
(*   - money and ratios of tab 1 are rationals <<n, d>> in lowest terms;   *)
(*     d = 0 stands for the float a division by zero yields (nan, inf);    *)
(*   - percentages entered on sliders are integers in hundredths of a      *)
(*     percent (5.0 % = 500);                                              *)
(*   - energies of tab 2 are integers in micro-kWh (1 kWh = 1000000),      *)
(*     in which every product of the script is exact;                      *)
(*   - a percentage result p is the rational p / 100 (pct_saving) or the   *)
(*     rational p (total_return).                                          *)
(* numpy's generator is modelled as a full-period linear congruential      *)
(* generator whose normal deviates are quantised to whole standard         *)
(* deviations.                                                             *)
(***************************************************************************)
EXTENDS Integers, Sequences, FiniteSets, TLC

VARIABLES widgets, session_state, lastSet, steps, args, roi, energy, rng, seen

vars == <<widgets, session_state, lastSet, steps, args, roi, energy, rng, seen>>

---------------------------------------------------------------------------
(* Bounds of the model *)

\* user interactions (script reruns after the first run) explored
MaxActions == 2
\* longest holding period an engine is invoked with directly
MaxHold == 5
\* longest simulation, in days, an engine is invoked with directly
MaxDays == 2

---------------------------------------------------------------------------
(* Exact rational arithmetic standing for Python float arithmetic *)

Abs(x) == IF x < 0 THEN -x ELSE x

RECURSIVE Gcd(_, _)
Gcd(a, b) == IF b = 0 THEN a ELSE Gcd(b, a % b)

Sign(x) == IF x < 0 THEN -1 ELSE IF x = 0 THEN 0 ELSE 1

\* n / d as a float: lowest terms, d > 0; x / 0 is nan (<<0,0>>) or +-inf.
Rat(n, d) ==
    IF d = 0 THEN <<Sign(n), 0>>
    ELSE LET g == Gcd(Abs(n), Abs(d))
         IN  IF d < 0 THEN <<(0 - n) \div g, (0 - d) \div g>>
                      ELSE <<n \div g, d \div g>>

RatInt(k) == <<k, 1>>

RatMul(x, y) ==
    IF x[2] = 0 \/ y[2] = 0 THEN <<Sign(x[1]) * Sign(y[1]), 0>>
    ELSE LET g1 == Gcd(Abs(x[1]), y[2])
             g2 == Gcd(Abs(y[1]), x[2])
         IN  <<(x[1] \div g1) * (y[1] \div g2), (x[2] \div g2) * (y[2] \div g1)>>

RatDiv(x, y) ==
    IF y[1] = 0 THEN <<Sign(x[1]), 0>>
    ELSE IF y[1] < 0 THEN RatMul(x, <<0 - y[2], 0 - y[1]>>)
    ELSE RatMul(x, <<y[2], y[1]>>)

RatAdd(x, y) ==
    IF x[2] = 0 \/ y[2] = 0 THEN <<0, 0>>
    ELSE LET g == Gcd(x[2], y[2])
             l == (x[2] \div g) * y[2]
         IN  Rat(x[1] * (l \div x[2]) + y[1] * (l \div y[2]), l)

RatSub(x, y) == RatAdd(x, <<0 - y[1], y[2]>>)

\* x < y; every comparison with nan is false
RatLess(x, y) ==
    /\ x[2] # 0
    /\ y[2] # 0
    /\ LET g == Gcd(x[2], y[2])
           l == (x[2] \div g) * y[2]
       IN  x[1] * (l \div x[2]) < y[1] * (l \div y[2])

RatLeq(x, y) == RatLess(x, y) \/ (x[2] # 0 /\ x = y)

RECURSIVE RatPow(_, _)
RatPow(x, k) == IF k = 0 THEN <<1, 1>> ELSE RatMul(RatPow(x, k - 1), x)

\* a slider percentage (hundredths of a percent) divided by 100
PctFraction(p) == Rat(p, 10000)

\* Arange with the end taken one too low
ArangeShort(n) == [i \in 0..(n - 2) |-> i]

\* np.arange(0, n): the array of indices 0 .. n-1 (empty when n <= 0)
Arange(n) == [i \in 0..(n - 1) |-> i]

Len0(a) == Cardinality(DOMAIN a)

---------------------------------------------------------------------------
(* The pseudo-random generator (np.random.default_rng, Generator.normal) *)

Seed == 42

\* the value of rng before the script has created any generator
NoGenerator == 0 - 1

NextState(s) == (137 * s + 187) % 256

\* NextState composed n times is s |-> (J[1] * s + J[2]) % 256, J == Jump(n)
RECURSIVE Jump(_)
Jump(n) ==
    IF n = 0 THEN <<1, 0>>
    ELSE IF n % 2 = 1
         THEN LET j == Jump(n - 1) IN <<(137 * j[1]) % 256, NextState(j[2])>>
         ELSE LET j == Jump(n \div 2) IN <<(j[1] * j[1]) % 256, (j[1] * j[2] + j[2]) % 256>>

\* the generator's period is 256
JumpTable == [n \in 0..255 |-> Jump(n)]

\* the generator state n draws after state g
Advance(g, n) == (JumpTable[n % 256][1] * g + JumpTable[n % 256][2]) % 256

\* np.random.default_rng(seed): a new generator, a function of the seed alone
default_rng(seed) == seed % 256

\* a standard normal deviate read off a generator state, in whole standard
\* deviations
Deviate(s) == <<0 - 2, 0 - 1, 0 - 1, 0 - 1, 0, 0, 0, 0, 0, 0, 0, 0, 1, 1, 1, 2>>[(s \div 16) + 1]

\* rng.normal(loc, scale, size=n) on a generator in state g: the array of n
\* samples, in hundredths (loc and scale in hundredths)
Normal(g, loc, scale, n) == [i \in 0..(n - 1) |-> loc + scale * Deviate(Advance(g, i + 1))]

---------------------------------------------------------------------------
(* Tab 1: the ROI projection, lines 61-71 *)

\* Values with the exponent left out
ValuesWithoutPower(purchase_price, annual_appreciation, years) ==
    [i \in DOMAIN years |->
        RatMul(RatInt(purchase_price), RatAdd(RatInt(1), PctFraction(annual_appreciation)))]

\* values = purchase_price * (1 + annual_appreciation/100) ** years
Values(purchase_price, annual_appreciation, years) ==
    [i \in DOMAIN years |->
        RatMul(RatInt(purchase_price),
               RatPow(RatAdd(RatInt(1), PctFraction(annual_appreciation)), years[i]))]

\* yearly_rent = purchase_price * (annual_rental_yield/100)
YearlyRent(purchase_price, annual_rental_yield) ==
    RatMul(RatInt(purchase_price), PctFraction(annual_rental_yield))

\* net_rent = yearly_rent * (1 - annual_expenses_pct/100)
NetRent(yearly_rent, annual_expenses_pct) ==
    RatMul(yearly_rent, RatSub(RatInt(1), PctFraction(annual_expenses_pct)))

\* CumulativeRent counting the years from 1
CumulativeRentFromOne(net_rent, holding_years) ==
    [i \in 0..holding_years |-> RatMul(net_rent, RatInt(i + 1))]

\* cumulative_rent = net_rent * np.arange(0, holding_years+1)
CumulativeRent(net_rent, holding_years) ==
    [i \in DOMAIN Arange(holding_years + 1) |-> RatMul(net_rent, RatInt(Arange(holding_years + 1)[i]))]

\* TotalReturn without the purchase price subtracted
TotalReturnGross(final_value, total_income, purchase_price) ==
    RatMul(RatDiv(RatAdd(final_value, total_income), RatInt(purchase_price)), RatInt(100))

\* total_return = (final_value + total_income - purchase_price) / purchase_price * 100
TotalReturn(final_value, total_income, purchase_price) ==
    RatMul(RatDiv(RatSub(RatAdd(final_value, total_income), RatInt(purchase_price)),
                  RatInt(purchase_price)),
           RatInt(100))

\* a[-1]: the last element of a non-empty array
Last(a) == a[Len0(a) - 1]

RoiNotRun == [status |-> "not_run"]

\* The ROI computation on the script's variables a (lines 61-71).  There is no
\* validation: the only failure is the IndexError of values[-1] on an empty array.
Project(a) ==
    LET years           == Arange(a.holding_years + 1)
        values          == Values(a.purchase_price, a.annual_appreciation, years)
        yearly_rent     == YearlyRent(a.purchase_price, a.annual_rental_yield)
        net_rent        == NetRent(yearly_rent, a.annual_expenses_pct)
        cumulative_rent == CumulativeRent(net_rent, a.holding_years)
        in_ == [purchase_price      |-> a.purchase_price,
                annual_appreciation |-> a.annual_appreciation,
                annual_rental_yield |-> a.annual_rental_yield,
                holding_years       |-> a.holding_years,
                annual_expenses_pct |-> a.annual_expenses_pct]
    IN  IF Len0(values) = 0
        THEN [status |-> "error", error |-> "IndexError", line |-> 69, in |-> in_,
              years |-> years, values |-> values, net_rent |-> net_rent,
              cumulative_rent |-> cumulative_rent]
        ELSE [status |-> "ok", error |-> "", line |-> 71, in |-> in_,
              years |-> years, values |-> values, net_rent |-> net_rent,
              cumulative_rent |-> cumulative_rent,
              final_value  |-> Last(values),
              total_income |-> Last(cumulative_rent),
              total_return |-> TotalReturn(Last(values), Last(cumulative_rent), a.purchase_price)]

---------------------------------------------------------------------------
(* Tab 2: the energy simulation, lines 130-173 *)

\* the keys of the dict literal of line 132 and its values, in micro-kWh
BaseLevelKeys == {"Low", "Medium", "High"}

BaseLevel(baseline_profile) ==
    CASE baseline_profile = "Low"    -> 1000000
      [] baseline_profile = "Medium" -> 1600000
      [] baseline_profile = "High"   -> 2400000

\* the keys of the dict literal of line 151 and its values, in tenths
LightingFactorKeys == {"Conservative", "Normal", "Generous"}

LightingFactor(lighting_behavior) ==
    CASE lighting_behavior = "Conservative" -> 8
      [] lighting_behavior = "Normal"       -> 10
      [] lighting_behavior = "Generous"     -> 12

\* hourly_baseline = base_level + occupant_influence * rng.normal(1.0, 0.05, size=hours)
\* with occupant_influence = 0.1 * occupants
HourlyBaseline(base_level, occupants, sample) ==
    [h \in DOMAIN sample |-> base_level + 1000 * occupants * sample[h]]

\* mask[lo:hi] = True on an array of length DOMAIN mask (a slice is clipped)
SetSlice(mask, lo, hi) ==
    [h \in DOMAIN mask |-> IF lo <= h /\ h < hi THEN TRUE ELSE mask[h]]

\* the body of the loop of occupied_mask for days d .. days-1
RECURSIVE MaskLoop(_, _, _, _)
MaskLoop(mask, d, days, btype) ==
    IF d >= days THEN mask
    ELSE LET base == d * 24
         IN  IF btype = "Apartment" \/ btype = "Villa"
             THEN MaskLoop(SetSlice(SetSlice(mask, base + 7, base + 9), base + 18, base + 23),
                           d + 1, days, btype)
             ELSE MaskLoop(SetSlice(mask, base + 8, base + 18), d + 1, days, btype)

\* occupied_mask testing for "Apartment" alone, a Villa taking the office hours
occupied_mask_apartment_only(days, btype) ==
    MaskLoop([h \in 0..(days * 24 - 1) |-> FALSE], 0, days,
             IF btype = "Villa" THEN "Office" ELSE btype)

\* def occupied_mask(days, btype)
occupied_mask(days, btype) ==
    MaskLoop([h \in 0..(days * 24 - 1) |-> FALSE], 0, days, btype)

\* lighting_hourly = 0.2 * lighting_factor * rng.normal(1.0, 0.02, size=hours)
LightingHourly(lighting_factor, sample) ==
    [h \in DOMAIN sample |-> 200 * lighting_factor * sample[h]]

\* hvac_hourly = hourly_baseline * 0.6
HvacHourly(hourly_baseline) ==
    [h \in DOMAIN hourly_baseline |-> (hourly_baseline[h] * 6) \div 10]

\* other_hourly = hourly_baseline * 0.4 * rng.normal(1.0, 0.05, size=hours)
OtherHourly(hourly_baseline, sample) ==
    [h \in DOMAIN hourly_baseline |-> (hourly_baseline[h] \div 1000) * 4 * sample[h]]

\* 6 * setpoint_effect, setpoint_effect = max(0, (26 - ac_setpoint) / 6)
SetpointEffect6(ac_setpoint) ==
    IF 26 - ac_setpoint > 0 THEN 26 - ac_setpoint ELSE 0

\* OptimizedHvac with the setback applied to every hour, not the unoccupied ones
OptimizedHvacUnmasked(hvac_hourly, occ, ac_setpoint) ==
    LET setback == [h \in DOMAIN hvac_hourly |-> (hvac_hourly[h] * 7) \div 10]
    IN  [h \in DOMAIN hvac_hourly |->
            IF occ[h] THEN (setback[h] * (120 - SetpointEffect6(ac_setpoint))) \div 120
                      ELSE setback[h]]

\* optimized_hvac = hvac_hourly.copy(); optimized_hvac[~occ] *= 0.7;
\* optimized_hvac[occ] *= (1 - 0.05 * setpoint_effect)
\* (1 - 0.05 * e = (120 - 6 * e) / 120)
OptimizedHvac(hvac_hourly, occ, ac_setpoint) ==
    LET setback == [h \in DOMAIN hvac_hourly |->
                      IF ~occ[h] THEN (hvac_hourly[h] * 7) \div 10 ELSE hvac_hourly[h]]
    IN  [h \in DOMAIN hvac_hourly |->
            IF occ[h] THEN (setback[h] \div 120) * (120 - SetpointEffect6(ac_setpoint))
                      ELSE setback[h]]

\* hvac_hourly as it stands after line 165: optimized_hvac is a copy, so the
\* in-place updates leave hvac_hourly as it was
HvacAfterOptimisation(hvac_hourly, optimized_hvac) == hvac_hourly

\* optimized_lighting = lighting_hourly * (0.85 if Conservative else (1.0 if Normal else 1.1))
OptimizedLighting(lighting_hourly, lighting_behavior) ==
    LET f == IF lighting_behavior = "Conservative" THEN 85
             ELSE IF lighting_behavior = "Normal" THEN 100 ELSE 110
    IN  [h \in DOMAIN lighting_hourly |-> (lighting_hourly[h] \div 100) * f]

\* a + b + c, elementwise
Add3(a, b, c) == [h \in DOMAIN a |-> a[h] + b[h] + c[h]]

\* a.sum()
RECURSIVE SumRange(_, _, _)
SumRange(a, lo, hi) ==
    IF lo > hi THEN 0
    ELSE IF lo = hi THEN a[lo]
    ELSE LET mid == (lo + hi) \div 2
         IN  SumRange(a, lo, mid) + SumRange(a, mid + 1, hi)

Sum(a) == SumRange(a, 0, Len0(a) - 1)

\* PctSaving with the operands of the difference exchanged
PctSavingSwapped(baseline_sum, optimized_sum) == Rat(optimized_sum - baseline_sum, baseline_sum)

\* pct_saving = (baseline_sum - optimized_sum) / baseline_sum * 100, as the
\* rational pct_saving / 100
PctSaving(baseline_sum, optimized_sum) == Rat(baseline_sum - optimized_sum, baseline_sum)

EnergyNotRun == [status |-> "not_run"]

\* RngAtEntry with one generator kept for the whole process
RngCarriedOver(g) == IF g = NoGenerator THEN default_rng(Seed) ELSE g

\* the generator the simulation draws from (line 131): created from the seed,
\* whatever generator g an earlier run of the script left behind
RngAtEntry(g) == default_rng(Seed)

\* The energy simulation on the script's variables a, g being the generator left
\* by the previous run (lines 130-173).  There is no validation: the only
\* failures are the KeyErrors of the dict lookups of lines 132 and 151.
Simulate(a, g) ==
    LET hours            == a.duration_days * 24
        g0               == RngAtEntry(g)
        in_ == [building_type     |-> a.building_type,
                baseline_profile  |-> a.baseline_profile,
                occupants         |-> a.occupants,
                ac_setpoint       |-> a.ac_setpoint,
                lighting_behavior |-> a.lighting_behavior,
                duration_days     |-> a.duration_days]
    IN  IF a.baseline_profile \notin BaseLevelKeys
        THEN [status |-> "error", error |-> "KeyError", line |-> 132, in |-> in_,
              draws |-> 0, rng |-> g0]
        ELSE
        LET hourly_baseline  == HourlyBaseline(BaseLevel(a.baseline_profile), a.occupants,
                                               Normal(g0, 100, 5, hours))
            g1               == Advance(g0, hours)
            occ              == occupied_mask(a.duration_days, a.building_type)
        IN  IF a.lighting_behavior \notin LightingFactorKeys
            THEN [status |-> "error", error |-> "KeyError", line |-> 151, in |-> in_,
                  draws |-> hours, rng |-> g1,
                  hourly_baseline |-> hourly_baseline, occ |-> occ]
            ELSE
            LET lighting_hourly  == LightingHourly(LightingFactor(a.lighting_behavior),
                                                   Normal(g1, 100, 2, hours))
                g2               == Advance(g1, hours)
                hvac_hourly      == HvacHourly(hourly_baseline)
                other_hourly     == OtherHourly(hourly_baseline, Normal(g2, 100, 5, hours))
                g3               == Advance(g2, hours)
                baseline_total   == Add3(lighting_hourly, hvac_hourly, other_hourly)
                optimized_hvac   == OptimizedHvac(hvac_hourly, occ, a.ac_setpoint)
                optimized_lighting == OptimizedLighting(lighting_hourly, a.lighting_behavior)
                optimized_total  == Add3(optimized_lighting, optimized_hvac, other_hourly)
                baseline_sum     == Sum(baseline_total)
                optimized_sum    == Sum(optimized_total)
            IN  [status |-> "ok", error |-> "", line |-> 173, in |-> in_,
                 draws |-> 3 * hours, rng |-> g3,
                 hourly_baseline |-> hourly_baseline, occ |-> occ,
                 lighting_hourly |-> lighting_hourly,
                 hvac_hourly |-> HvacAfterOptimisation(hvac_hourly, optimized_hvac),
                 other_hourly |-> other_hourly,
                 baseline_total |-> baseline_total,
                 optimized_hvac |-> optimized_hvac,
                 optimized_lighting |-> optimized_lighting,
                 optimized_total |-> optimized_total,
                 baseline_sum |-> baseline_sum, optimized_sum |-> optimized_sum,
                 pct_saving |-> PctSaving(baseline_sum, optimized_sum)]

---------------------------------------------------------------------------
(* The script's inputs: widgets, preset buttons, st.session_state *)

\* each widget's initial value (lines 32-37, 103-108)
WidgetDefaults ==
    [location_score      |-> 6,
     purchase_price      |-> 1000000,
     annual_appreciation |-> 500,
     annual_rental_yield |-> 600,
     holding_years       |-> 5,
     annual_expenses_pct |-> 2000,
     building_type       |-> "Apartment",
     baseline_profile    |-> "Low",
     occupants           |-> 3,
     ac_setpoint         |-> 23,
     lighting_behavior   |-> "Conservative",
     duration_days       |-> 7]

WidgetKeys == DOMAIN WidgetDefaults

\* the values of each widget's range the user is taken to pick from
Choices(k) ==
    CASE k = "location_score"      -> {6, 7}
      [] k = "purchase_price"      -> {1000000, 100000}
      [] k = "annual_appreciation" -> {500, 0}
      [] k = "annual_rental_yield" -> {600, 300}
      [] k = "holding_years"       -> {5, 1}
      [] k = "annual_expenses_pct" -> {2000, 0}
      [] k = "building_type"       -> {"Apartment", "Villa", "Office"}
      [] k = "baseline_profile"    -> {"Low", "Medium", "High"}
      [] k = "occupants"           -> {3, 10}
      [] k = "ac_setpoint"         -> {23, 26}
      [] k = "lighting_behavior"   -> {"Conservative", "Normal", "Generous"}
      [] k = "duration_days"       -> {7, 1}

\* what each preset button assigns to st.session_state (lines 41-52, 112-119)
Presets ==
    [Conservative |-> [annual_appreciation |-> 200, annual_rental_yield |-> 400,
                       holding_years |-> 5],
     Balanced     |-> [annual_appreciation |-> 500, annual_rental_yield |-> 600,
                       holding_years |-> 5],
     Aggressive   |-> [annual_appreciation |-> 1000, annual_rental_yield |-> 800,
                       holding_years |-> 7],
     Residential  |-> [building_type |-> "Apartment", baseline_profile |-> "Medium",
                       occupants |-> 3],
     OfficeHigh   |-> [building_type |-> "Office", baseline_profile |-> "High",
                       occupants |-> 6]]

PresetKeys == UNION {DOMAIN Presets[p] : p \in DOMAIN Presets}

\* st.session_state with no key set
EmptySessionState == [k \in {} |-> 0]

\* st.session_state after the attribute assignments of a clicked preset
Assign(ss, preset) ==
    [k \in (DOMAIN ss) \cup (DOMAIN preset) |->
        IF k \in DOMAIN preset THEN preset[k] ELSE ss[k]]

\* st.session_state.get(key, default)
Get(ss, key, default) == IF key \in DOMAIN ss THEN ss[key] ELSE default

\* The script's variables as the computations read them: the widgets' return
\* values, overridden by the read-back of lines 55-57 and 122-127.  float() and
\* int() are applied to values that are floats and ints already.
Readback(w, ss) ==
    [purchase_price      |-> w.purchase_price,
     annual_expenses_pct |-> w.annual_expenses_pct,
     annual_appreciation |-> Get(ss, "annual_appreciation", w.annual_appreciation),
     annual_rental_yield |-> Get(ss, "annual_rental_yield", w.annual_rental_yield),
     holding_years       |-> Get(ss, "holding_years", w.holding_years),
     building_type       |-> Get(ss, "building_type", w.building_type),
     baseline_profile    |-> Get(ss, "baseline_profile", w.baseline_profile),
     occupants           |-> Get(ss, "occupants", w.occupants),
     ac_setpoint         |-> Get(ss, "ac_setpoint", w.ac_setpoint),
     lighting_behavior   |-> Get(ss, "lighting_behavior", w.lighting_behavior),
     duration_days       |-> Get(ss, "duration_days", w.duration_days)]

\* the energy results recorded so far, with the one of this run
Record(log, e) == IF e.status = "ok" THEN log \cup {e} ELSE log

\* One run of the script, top to bottom, on widget values w and session state
\* ss: the read-back, tab 1, then tab 2 (which an exception in tab 1 prevents).
Rerun(w, ss) ==
    /\ args' = Readback(w, ss)
    /\ roi' = Project(args')
    /\ energy' = IF roi'.status = "error" THEN EnergyNotRun ELSE Simulate(args', rng)
    /\ rng' = IF energy'.status = "not_run" THEN rng ELSE energy'.rng
    /\ seen' = Record(seen, energy')

\* the first run of the script, when the page is opened
Init ==
    LET a == Readback(WidgetDefaults, EmptySessionState)
        e == Simulate(a, NoGenerator)
    IN  /\ widgets = WidgetDefaults
        /\ session_state = EmptySessionState
        /\ lastSet = [k \in PresetKeys |-> WidgetDefaults[k]]
        /\ steps = 0
        /\ args = a
        /\ roi = Project(a)
        /\ energy = e
        /\ rng = e.rng
        /\ seen = {e}

\* the user moves a slider, edits the number input or picks a selectbox option
SetWidget(k, v) ==
    /\ steps < MaxActions
    /\ v # widgets[k]
    /\ widgets' = [widgets EXCEPT ![k] = v]
    /\ session_state' = session_state
    /\ lastSet' = [j \in PresetKeys |-> IF j = k THEN v ELSE lastSet[j]]
    /\ steps' = steps + 1
    /\ Rerun(widgets', session_state')

\* the user clicks a preset button
ClickPreset(p) ==
    /\ steps < MaxActions
    /\ widgets' = widgets
    /\ session_state' = Assign(session_state, Presets[p])
    /\ lastSet' = [j \in PresetKeys |->
                     IF j \in DOMAIN Presets[p] THEN Presets[p][j] ELSE lastSet[j]]
    /\ steps' = steps + 1
    /\ Rerun(widgets', session_state')

Next ==
    \/ \E k \in WidgetKeys : \E v \in Choices(k) : SetWidget(k, v)
    \/ \E p \in DOMAIN Presets : ClickPreset(p)

Spec == Init /\ [][Next]_vars

---------------------------------------------------------------------------
(* The two computations invoked directly, on inputs of any kind *)

\* ROI inputs, inside and outside the sliders' ranges
RoiInputs ==
    [purchase_price      : {0 - 100000, 0, 100000, 1000000},
     annual_appreciation : {0, 500, 1000},
     annual_rental_yield : {0, 600},
     holding_years       : (0 - 1)..MaxHold,
     annual_expenses_pct : {0, 2000, 10000}]

\* energy inputs, inside and outside the widgets' ranges
EnergyInputs ==
    [building_type     : {"Apartment", "Villa", "Office", "Hotel"},
     baseline_profile  : {"Low", "Medium", "High", "Extreme"},
     occupants         : {1, 3, 10},
     ac_setpoint       : {20, 23, 26, 27},
     lighting_behavior : {"Conservative", "Normal", "Generous", "Dim"},
     duration_days     : 0..MaxDays]

\* the script's variables with the fields of i replaced
With(a, i) == [k \in DOMAIN a |-> IF k \in DOMAIN i THEN i[k] ELSE a[k]]

DefaultArgs == Readback(WidgetDefaults, EmptySessionState)

\* nothing has run; one of the two computations gets inputs of any kind
InitEngine ==
    /\ widgets = WidgetDefaults
    /\ session_state = EmptySessionState
    /\ lastSet = [k \in PresetKeys |-> WidgetDefaults[k]]
    /\ steps = 0
    /\ \/ \E i \in RoiInputs : args = With(DefaultArgs, i)
       \/ \E i \in EnergyInputs : args = With(DefaultArgs, i)
    /\ roi = RoiNotRun
    /\ energy = EnergyNotRun
    /\ rng = NoGenerator
    /\ seen = {}

\* lines 61-71 run on the inputs
ProjectCall ==
    /\ roi.status = "not_run"
    /\ roi' = Project(args)
    /\ UNCHANGED <<widgets, session_state, lastSet, steps, args, energy, rng, seen>>

\* lines 130-173 run on the inputs
SimulateCall ==
    /\ energy.status = "not_run"
    /\ energy' = Simulate(args, rng)
    /\ rng' = energy'.rng
    /\ seen' = Record(seen, energy')
    /\ UNCHANGED <<widgets, session_state, lastSet, steps, args, roi>>

NextEngine == ProjectCall \/ SimulateCall

SpecEngine == InitEngine /\ [][NextEngine]_vars

---------------------------------------------------------------------------
(* Properties *)

\* the declared domains of the two computations' inputs
RoiInDomain(i) == i.purchase_price > 0 /\ i.holding_years >= 1

EnergyInDomain(i) ==
    /\ i.duration_days >= 1
    /\ i.building_type \in {"Apartment", "Villa", "Office"}
    /\ i.baseline_profile \in {"Low", "Medium", "High"}
    /\ i.lighting_behavior \in {"Conservative", "Normal", "Generous"}

\* C1: for every preset-controlled input, the value the computation reads is
\* the one the most recent user action on that input set (last action wins).
C1_LastActionWins == \A k \in PresetKeys : args[k] = lastSet[k]

\* C2: any two runs of the energy simulation on identical inputs, whatever ran
\* before or between them, give identical results (sequences, sums, saving).
C2_SimulateRepeatable ==
    /\ energy.status = "ok" => energy \in seen
    /\ \A r1 \in seen : \A r2 \in seen : r1.in = r2.in => r1 = r2

\* the first run's inputs were simulated again after a run on other inputs
C2_Witness ==
    /\ steps >= 2
    /\ energy.status = "ok"
    /\ \A k \in DOMAIN energy.in : energy.in[k] = DefaultArgs[k]
    /\ Cardinality({r.in : r \in seen}) >= 2

\* C3: an engine invoked on an input outside its declared domain reports
\* InvalidParameter before computing anything, and produces no result.
C3_FailFast ==
    /\ (roi.status # "not_run" /\ ~RoiInDomain(roi.in)) =>
          (roi.status = "error" /\ roi.error = "InvalidParameter" /\ roi.line = 61)
    /\ (energy.status # "not_run" /\ ~EnergyInDomain(energy.in)) =>
          (energy.status = "error" /\ energy.error = "InvalidParameter"
           /\ energy.draws = 0)

\* the simulation ran to its end on inputs inside the declared domain
EnergyDone == energy.status = "ok" /\ EnergyInDomain(energy.in)

Generous26(i) == i.lighting_behavior = "Generous" /\ i.ac_setpoint = 26

\* C4 as stated: some valid input with Generous lighting and setpoint 26 has a
\* negative pct_saving, and pct_saving is returned as computed.
C4_NegativeSavingExists ==
    /\ \E i \in EnergyInputs :
          /\ EnergyInDomain(i) /\ Generous26(i)
          /\ Simulate(With(DefaultArgs, i), NoGenerator).pct_saving[1] < 0
    /\ energy.status = "ok" =>
          energy.pct_saving = Rat(energy.baseline_sum - energy.optimized_sum, energy.baseline_sum)

\* C4 amended: on every valid input with Generous lighting and setpoint 26 the
\* optimized sum is below the baseline sum, so pct_saving is positive; and
\* pct_saving is the quotient as computed, with no clamp, on every run.
C4_SavingPositiveUnclamped ==
    /\ (EnergyDone /\ Generous26(energy.in)) =>
          /\ energy.optimized_sum < energy.baseline_sum
          /\ energy.pct_saving[1] > 0 /\ energy.pct_saving[2] > 0
    /\ energy.status = "ok" =>
          energy.pct_saving = Rat(energy.baseline_sum - energy.optimized_sum, energy.baseline_sum)

C4_Witness ==
    /\ EnergyDone /\ Generous26(energy.in)
    /\ energy.in.building_type = "Office" /\ energy.in.duration_days >= 1

ResidentialHours == {7, 8, 18, 19, 20, 21, 22}

OfficeHours == 8..17

\* C5: for a listed building type and at least one day, the mask has
\* duration_days*24 entries, entry h being true exactly when h mod 24 is an
\* occupied hour of the type (7 a day for Apartment and Villa, 10 for Office).
C5_OccupancyMask ==
    (energy.status # "not_run" /\ energy.line > 132
       /\ energy.in.building_type \in {"Apartment", "Villa", "Office"}
       /\ energy.in.duration_days >= 1) =>
       LET hoursOf == IF energy.in.building_type = "Office" THEN OfficeHours
                      ELSE ResidentialHours
           days == energy.in.duration_days
       IN  /\ DOMAIN energy.occ = 0..(days * 24 - 1)
           /\ \A h \in DOMAIN energy.occ : energy.occ[h] <=> (h % 24) \in hoursOf
           /\ \A d \in 0..(days - 1) :
                 Cardinality({h \in (d * 24)..(d * 24 + 23) : energy.occ[h]})
                    = IF energy.in.building_type = "Office" THEN 10 ELSE 7

C5_Witness ==
    /\ energy.status = "ok"
    /\ energy.in.building_type = "Villa"
    /\ energy.in.duration_days >= 2
    /\ energy.occ[24 + 22] /\ ~energy.occ[24 + 23]

\* C6: for purchase_price > 0 and holding_years >= 0 the projection yields the
\* years 0..holding_years in order and value and cumulative-rent series of
\* length holding_years + 1, starting at purchase_price and 0.
C6_SeriesShape ==
    (roi.status # "not_run" /\ roi.in.purchase_price > 0 /\ roi.in.holding_years >= 0) =>
       /\ roi.status = "ok"
       /\ DOMAIN roi.years = 0..roi.in.holding_years
       /\ \A y \in DOMAIN roi.years : roi.years[y] = y
       /\ DOMAIN roi.values = 0..roi.in.holding_years
       /\ DOMAIN roi.cumulative_rent = 0..roi.in.holding_years
       /\ roi.values[0] = <<roi.in.purchase_price, 1>>
       /\ roi.cumulative_rent[0] = <<0, 1>>

C6_Witness ==
    /\ roi.status = "ok"
    /\ roi.in.holding_years = 0
    /\ roi.in.purchase_price > 0
    /\ Len0(roi.values) = 1

\* C7: cumulative net rent at year y is y times the constant net annual rent
\* purchase_price * (yield/100) * (1 - expenses/100), hence y times its value
\* at year 1; for a positive price, yield >= 0 and expenses in [0,100] it is
\* non-negative and non-decreasing.
C7_LinearRent ==
    roi.status = "ok" =>
       LET i   == roi.in
           net == RatMul(RatMul(Rat(10000 - i.annual_expenses_pct, 10000),
                                Rat(i.annual_rental_yield, 10000)),
                         RatInt(i.purchase_price))
           cum == roi.cumulative_rent
       IN  /\ \A y \in 0..i.holding_years : cum[y] = RatMul(RatInt(y), net)
           /\ i.holding_years >= 1 =>
                 \A y \in 0..i.holding_years : cum[y] = RatMul(RatInt(y), cum[1])
           /\ (i.purchase_price > 0 /\ i.annual_rental_yield >= 0
               /\ i.annual_expenses_pct >= 0 /\ i.annual_expenses_pct <= 10000) =>
                 /\ \A y \in 0..i.holding_years : cum[y][1] >= 0
                 /\ \A y \in 0..(i.holding_years - 1) : RatLeq(cum[y], cum[y + 1])

C7_Witness ==
    /\ roi.status = "ok"
    /\ roi.in.holding_years >= 3
    /\ roi.in.purchase_price > 0
    /\ roi.in.annual_rental_yield > 0
    /\ roi.in.annual_expenses_pct = 2000
    /\ RatLess(roi.cumulative_rent[2], roi.cumulative_rent[3])

\* C8: for purchase_price > 0 the value series is strictly increasing in the
\* year when appreciation > 0, and equal to purchase_price throughout when
\* appreciation = 0.
C8_ValueMonotone ==
    (roi.status = "ok" /\ roi.in.purchase_price > 0) =>
       /\ roi.in.annual_appreciation > 0 =>
             \A y \in 0..(roi.in.holding_years - 1) :
                 RatLess(roi.values[y], roi.values[y + 1])
       /\ roi.in.annual_appreciation = 0 =>
             \A y \in 0..roi.in.holding_years :
                 roi.values[y] = <<roi.in.purchase_price, 1>>

C8_Witness ==
    /\ roi.status = "ok"
    /\ roi.in.purchase_price > 0
    /\ roi.in.annual_appreciation > 0
    /\ roi.in.holding_years >= 3

\* the worked example: 1,000,000 at 5 % appreciation, 6 % yield, 5 years,
\* 20 % expenses
ExampleRoiInput ==
    [purchase_price |-> 1000000, annual_appreciation |-> 500,
     annual_rental_yield |-> 600, holding_years |-> 5, annual_expenses_pct |-> 2000]

\* C9: total return % is (value(holding_years) + cumulative net rent
\* (holding_years) - purchase_price) / purchase_price * 100; on the worked
\* example the net rent is 48,000 a year, 240,000 after 5 years, and the total
\* return is 51.62815625 %, about 51.63 %.
C9_TotalReturn ==
    (roi.status = "ok" /\ roi.in.purchase_price > 0) =>
       LET hy == roi.in.holding_years
       IN  /\ RatMul(roi.total_return, RatInt(roi.in.purchase_price))
                 = RatMul(RatInt(100),
                          RatSub(RatAdd(roi.values[hy], roi.cumulative_rent[hy]),
                                 RatInt(roi.in.purchase_price)))
           /\ roi.in = ExampleRoiInput =>
                 /\ roi.net_rent = <<48000, 1>>
                 /\ roi.cumulative_rent[5] = <<240000, 1>>
                 /\ roi.total_return = <<1652101, 32000>>
                 /\ RatLess(<<51625, 1000>>, roi.total_return)
                 /\ RatLess(roi.total_return, <<51635, 1000>>)

C9_Witness == roi.status = "ok" /\ roi.in = ExampleRoiInput

====
